---------------------------- MODULE Spec2Model ----------------------------
(***************************************************************************)
(* Model of cli/examples/custom-commit-templater/main.rs: the HexCounter   *)
(* commit-template extension.  It registers three commit methods           *)
(* (has_most_digits, num_digits_in_id, num_char_in_id) and one cached      *)
(* singleton, MostDigitsInId, whose OnceCell holds the largest number of   *)
(* decimal digits found in the hex form of any commit id of the repo.      *)
(***************************************************************************)
EXTENDS Integers, Sequences, FiniteSets, TLC

(***************************************************************************)
(* Bounds of the model.                                                    *)
(***************************************************************************)
NumThreads == 2
MaxBuilds == 2

Threads == 1..NumThreads

(***************************************************************************)
(* Commit ids are byte strings; hex() renders each byte as two lowercase   *)
(* hexadecimal characters.  Characters are one-character strings.          *)
(***************************************************************************)
HexChars == <<"0", "1", "2", "3", "4", "5", "6", "7",
              "8", "9", "a", "b", "c", "d", "e", "f">>

RECURSIVE hex(_)
hex(id) ==
    IF id = <<>> THEN <<>>
    ELSE <<HexChars[(Head(id) \div 16) + 1], HexChars[(Head(id) % 16) + 1]>>
         \o hex(Tail(id))

IdA1B2C3 == <<161, 178, 195>>
Id000111 == <<0, 1, 17>>
IdABCDEF == <<171, 205, 239>>

\* The commits a template may be rendered for, and the repos (sets of
\* commit ids that RevsetExpression::all() enumerates) a session may see.
IdPool == {IdA1B2C3, Id000111, IdABCDEF}
Universes == {{}, {IdA1B2C3, IdABCDEF}, IdPool}

(***************************************************************************)
(* num_digits_in_id: count the characters of id.hex() that are ASCII       *)
(* decimal digits.                                                         *)
(***************************************************************************)
\* Variant: every hexadecimal character counts as a digit.
is_ascii_hexdigit(ch) ==
    ch \in {HexChars[i] : i \in 1..16}

is_ascii_digit(ch) ==
    ch \in {"0", "1", "2", "3", "4", "5", "6", "7", "8", "9"}

RECURSIVE num_digits_loop(_, _)
num_digits_loop(chars, count) ==
    IF chars = <<>> THEN count
    ELSE num_digits_loop(Tail(chars),
                         IF is_ascii_digit(Head(chars)) THEN count + 1 ELSE count)

\* Variant: the counter is incremented for every character.
num_digits_all_chars(id) == Len(hex(id))

num_digits_in_id(id) == num_digits_loop(hex(id), 0)

(***************************************************************************)
(* num_char_in_id: count the characters of commit.id().hex() equal to      *)
(* ch_match; always Ok.                                                    *)
(***************************************************************************)
RECURSIVE num_char_loop(_, _, _)
num_char_loop(chars, ch_match, count) ==
    IF chars = <<>> THEN count
    ELSE num_char_loop(Tail(chars), ch_match,
                       IF Head(chars) = ch_match THEN count + 1 ELSE count)

Ok(v) == [ok |-> TRUE, value |-> v]

\* Variant: the loop stops at the first match.
num_char_first_only(commit, ch_match) ==
    Ok(IF \E i \in 1..Len(hex(commit)) : hex(commit)[i] = ch_match THEN 1 ELSE 0)

num_char_in_id(commit, ch_match) ==
    Ok(num_char_loop(hex(commit), ch_match, 0))

(***************************************************************************)
(* MostDigitsInId::count.  The closure handed to OnceCell::get_or_init     *)
(* enumerates RevsetExpression::all() over the repo, maps every id to its  *)
(* digit count and takes the maximum, 0 when the revset is empty.          *)
(***************************************************************************)
None == [some |-> FALSE, v |-> 0]
Some(x) == [some |-> TRUE, v |-> x]
unwrap_or(opt, default) == IF opt.some THEN opt.v ELSE default

\* The order in which the revset yields the ids of the repo.
RECURSIVE revset_iter(_)
revset_iter(S) ==
    IF S = {} THEN <<>>
    ELSE LET x == CHOOSE y \in S : TRUE
         IN <<x>> \o revset_iter(S \ {x})

RECURSIVE iter_max_fold(_, _)
iter_max_fold(seq, acc) ==
    IF seq = <<>> THEN acc
    ELSE iter_max_fold(Tail(seq), IF Head(seq) >= acc THEN Head(seq) ELSE acc)

\* Variant: the reduction keeps the smallest element.
RECURSIVE iter_min_fold(_, _)
iter_min_fold(seq, acc) ==
    IF seq = <<>> THEN acc
    ELSE iter_min_fold(Tail(seq), IF Head(seq) <= acc THEN Head(seq) ELSE acc)

iter_min(seq) ==
    IF seq = <<>> THEN None ELSE Some(iter_min_fold(Tail(seq), Head(seq)))

iter_max(seq) ==
    IF seq = <<>> THEN None ELSE Some(iter_max_fold(Tail(seq), Head(seq)))

most_digits_closure(repo) ==
    LET ids == revset_iter(repo)
        counts == [i \in 1..Len(ids) |-> num_digits_in_id(ids[i])]
    IN unwrap_or(iter_max(counts), 0)

(***************************************************************************)
(* The OnceCell<i64> of MostDigitsInId: Empty, Computing (one caller is    *)
(* running the closure, the others wait) or Done with the stored value.    *)
(***************************************************************************)
EmptyCell == [state |-> "Empty", value |-> 0]
DoneCell(v) == [state |-> "Done", value |-> v]

\* What get_or_init does for a caller that finds the cell in state c.
\* Variant: a filled cell is initialized again.
get_or_init_always_init(c) ==
    IF c.state = "Computing" THEN "wait" ELSE "init"

\* Variant: a caller does not wait for a running initialization.
get_or_init_no_lock(c) ==
    IF c.state = "Done" THEN "get" ELSE "init"

get_or_init(c) ==
    CASE c.state = "Done" -> "get"
      [] c.state = "Empty" -> "init"
      [] OTHER -> "wait"

\* The cell after the closure panicked (evaluate_programmatic(..).unwrap()).
\* Variant: the failure is cached as the default value.
cache_default_on_panic(c) == DoneCell(0)

on_init_panic(c) == EmptyCell

\* What count returns to a caller passing `repo` when the cell is filled.
\* Variant: the value is recomputed from the repo of the call.
count_recompute(c, repo) == most_digits_closure(repo)

count_get(c, repo) == c.value

(***************************************************************************)
(* Call sites and the argument validators of template_parser.  A call      *)
(* carries its argument expressions; every expression has a source span,   *)
(* here the range of argument positions it covers.                         *)
(***************************************************************************)
Span(lo, hi) == [lo |-> lo, hi |-> hi]
NoSpan == Span(0, 0)
StrLit(chars, i) == [kind |-> "string", value |-> chars, span |-> Span(i, i)]
IntLit(i) == [kind |-> "integer", value |-> <<>>, span |-> Span(i, i)]
Call(args) == [args |-> args, args_span |-> Span(1, Len(args))]

Literals == {<<>>, <<"1">>, <<"a">>, <<"1", "1">>}

CallSites ==
    {Call(<<>>)}
    \cup {Call(<<StrLit(s, 1)>>) : s \in Literals}
    \cup {Call(<<IntLit(1)>>), Call(<<StrLit(<<"1">>, 1), StrLit(<<"a">>, 2)>>)}

ParseOk(v) == [ok |-> TRUE, value |-> v, msg |-> "", span |-> NoSpan]
ParseErr(msg, span) == [ok |-> FALSE, value |-> "", msg |-> msg, span |-> span]

expect_no_arguments(call) ==
    IF call.args = <<>> THEN ParseOk("")
    ELSE ParseErr("Expected 0 arguments", call.args_span)

expect_exact_arguments_1(call) ==
    IF Len(call.args) = 1 THEN ParseOk("")
    ELSE ParseErr("Expected 1 arguments", call.args_span)

\* Variant: a longer literal is accepted and its first character taken.
first_char(string, span) ==
    IF Len(string) >= 1 THEN ParseOk(string[1])
    ELSE ParseErr("Expected singular character argument", span)

\* The refinement closure of the num_char_in_id builder.
singular_char(string, span) ==
    IF Len(string) = 1 THEN ParseOk(string[1])
    ELSE ParseErr("Expected singular character argument", span)

expect_string_literal_with(arg) ==
    IF arg.kind = "string" THEN singular_char(arg.value, arg.span)
    ELSE ParseErr("Expected string literal", arg.span)

(***************************************************************************)
(* Properties.  A property closes over constants captured when it was      *)
(* built: the character to match, or the repository-wide maximum.          *)
(***************************************************************************)
Property(method, call, ch, most) ==
    [method |-> method, call |-> call, ch |-> ch, most_digits |-> most]
NoProperty == Property("none", Call(<<>>), "", 0)

BuildOk(p) == [ok |-> TRUE, prop |-> p, msg |-> "", span |-> NoSpan]
BuildErr(e) == [ok |-> FALSE, prop |-> NoProperty, msg |-> e.msg, span |-> e.span]

\* The num_digits_in_id builder.
build_num_digits_in_id(call) ==
    LET a == expect_no_arguments(call)
    IN IF a.ok THEN BuildOk(Property("num_digits_in_id", call, "", 0))
       ELSE BuildErr(a)

\* The num_char_in_id builder.
build_num_char_in_id(call) ==
    LET a == expect_exact_arguments_1(call)
    IN IF ~a.ok THEN BuildErr(a)
       ELSE LET c == expect_string_literal_with(call.args[1])
            IN IF c.ok THEN BuildOk(Property("num_char_in_id", call, c.value, 0))
               ELSE BuildErr(c)

\* Running a built property on a commit.
eval_property(p, commit) ==
    CASE p.method = "has_most_digits" ->
            Ok(num_digits_in_id(commit) = p.most_digits)
      [] p.method = "num_digits_in_id" ->
            Ok(num_digits_in_id(commit))
      [] OTHER ->
            num_char_in_id(commit, p.ch)

(***************************************************************************)
(* The extension's two hooks.                                              *)
(***************************************************************************)
build_fn_table == {"has_most_digits", "num_digits_in_id", "num_char_in_id"}

\* Variant: the hook inserts nothing.
build_cache_extensions_nothing(extensions) == extensions

build_cache_extensions(extensions) == extensions \cup {"MostDigitsInId"}

cache_extension(extensions, key) == key \in extensions

(***************************************************************************)
(* State of one session.                                                   *)
(***************************************************************************)
VARIABLES
    phase,            \* "new", "table" (builders merged), "ready" (parse/render)
    fn_table,         \* method names registered in the function table
    extensions,       \* type keys present in the ExtensionsMap
    ext_inserts,      \* how many times the map gained an entry
    cell,             \* MostDigitsInId.count, the OnceCell
    repo,             \* the repo language.repo() currently hands out
    pc,               \* per thread: position inside the has_most_digits builder
    t_repo,           \* per thread: the repo it passed to count
    t_val,            \* per thread: the value count returned to it
    props,            \* the properties built so far
    lastBuild,        \* the latest finished builder run and its result
    lastEval,         \* the latest property evaluation and its result
    builds,           \* builder runs started
    count_calls,      \* calls of count started
    count_returns,    \* calls of count that returned a value
    compute_calls,    \* invocations of the closure given to get_or_init
    failures,         \* closure invocations that panicked
    computed_from,    \* the repo scanned by the invocation that filled the cell
    first_call_repo,  \* the repo passed by the first call of count to reach the cell
    computers         \* the threads that have invoked the closure

vars == <<phase, fn_table, extensions, ext_inserts, cell, repo, pc, t_repo,
          t_val, props, lastBuild, lastEval, builds, count_calls,
          count_returns, compute_calls, failures, computed_from,
          first_call_repo, computers>>

host_vars == <<phase, fn_table, extensions, ext_inserts>>
cell_vars == <<cell, compute_calls, failures, computed_from, computers>>
thread_vars == <<pc, t_repo, t_val>>
call_vars == <<count_calls, count_returns, first_call_repo>>

NoBuild == [method |-> "none", call |-> Call(<<>>), result |-> BuildErr(ParseErr("", NoSpan))]
NoEval == [prop |-> NoProperty, commit |-> <<>>, result |-> Ok(0)]

Init ==
    /\ phase = "new"
    /\ fn_table = {}
    /\ extensions = {}
    /\ ext_inserts = 0
    /\ cell = EmptyCell
    /\ repo \in Universes
    /\ pc = [t \in Threads |-> "idle"]
    /\ t_repo = [t \in Threads |-> {}]
    /\ t_val = [t \in Threads |-> 0]
    /\ props = {}
    /\ lastBuild = NoBuild
    /\ lastEval = NoEval
    /\ builds = 0
    /\ count_calls = 0
    /\ count_returns = 0
    /\ compute_calls = 0
    /\ failures = 0
    /\ computed_from = [set |-> FALSE, repo |-> {}]
    /\ first_call_repo = [set |-> FALSE, repo |-> {}]
    /\ computers = {}

(***************************************************************************)
(* The host's registration protocol: merge the extension's builders, then  *)
(* let it seed the ExtensionsMap, then parse and render.                   *)
(***************************************************************************)
HostBuildFnTable ==
    /\ phase = "new"
    /\ fn_table' = fn_table \cup build_fn_table
    /\ phase' = "table"
    /\ UNCHANGED <<extensions, ext_inserts, repo, props, lastBuild, lastEval,
                   builds>>
    /\ UNCHANGED <<cell_vars, thread_vars, call_vars>>

HostBuildCacheExtensions ==
    /\ phase = "table"
    /\ extensions' = build_cache_extensions(extensions)
    /\ ext_inserts' = ext_inserts + Cardinality(extensions' \ extensions)
    /\ phase' = "ready"
    /\ UNCHANGED <<fn_table, repo, props, lastBuild, lastEval, builds>>
    /\ UNCHANGED <<cell_vars, thread_vars, call_vars>>

\* The repo of the session is replaced by another one.
RepoChange ==
    /\ repo' \in Universes \ {repo}
    /\ UNCHANGED <<host_vars, props, lastBuild, lastEval, builds>>
    /\ UNCHANGED <<cell_vars, thread_vars, call_vars>>

(***************************************************************************)
(* The has_most_digits builder, run by thread t: check the arguments, look *)
(* the singleton up, call count(language.repo()), wrap the property.       *)
(***************************************************************************)
BuildHasMostDigits(t, call) ==
    /\ phase = "ready"
    /\ "has_most_digits" \in fn_table
    /\ pc[t] = "idle"
    /\ builds < MaxBuilds
    /\ builds' = builds + 1
    /\ LET a == expect_no_arguments(call)
       IN IF ~a.ok
          THEN /\ lastBuild' = [method |-> "has_most_digits", call |-> call,
                                result |-> BuildErr(a)]
               /\ UNCHANGED <<thread_vars, call_vars>>
          ELSE IF ~cache_extension(extensions, "MostDigitsInId")
          THEN /\ pc' = [pc EXCEPT ![t] = "lookup_panic"]
               /\ UNCHANGED <<t_repo, t_val, lastBuild, call_vars>>
          ELSE /\ pc' = [pc EXCEPT ![t] = "count"]
               /\ t_repo' = [t_repo EXCEPT ![t] = repo]
               /\ count_calls' = count_calls + 1
               /\ UNCHANGED <<t_val, lastBuild, count_returns,
                              first_call_repo>>
    /\ UNCHANGED <<host_vars, repo, props, lastEval, cell_vars>>

\* get_or_init finds the cell filled: count returns the stored value.
CountGet(t) ==
    /\ pc[t] = "count"
    /\ get_or_init(cell) = "get"
    /\ t_val' = [t_val EXCEPT ![t] = count_get(cell, t_repo[t])]
    /\ pc' = [pc EXCEPT ![t] = "wrap"]
    /\ count_returns' = count_returns + 1
    /\ UNCHANGED <<host_vars, repo, props, lastBuild, lastEval, builds,
                   cell_vars, t_repo, count_calls, first_call_repo>>

\* get_or_init finds the cell empty: this caller runs the closure.
CountInit(t) ==
    /\ pc[t] = "count"
    /\ get_or_init(cell) = "init"
    /\ cell' = [state |-> "Computing", value |-> 0]
    /\ compute_calls' = compute_calls + 1
    /\ computers' = computers \cup {t}
    /\ first_call_repo' =
           IF first_call_repo.set THEN first_call_repo
           ELSE [set |-> TRUE, repo |-> t_repo[t]]
    /\ pc' = [pc EXCEPT ![t] = "computing"]
    /\ UNCHANGED <<host_vars, repo, props, lastBuild, lastEval, builds,
                   failures, computed_from, t_repo, t_val, count_calls,
                   count_returns>>

\* get_or_init finds another caller computing: this caller blocks.
CountWait(t) ==
    /\ pc[t] = "count"
    /\ get_or_init(cell) = "wait"
    /\ pc' = [pc EXCEPT ![t] = "waiting"]
    /\ UNCHANGED <<host_vars, repo, props, lastBuild, lastEval, builds,
                   cell_vars, t_repo, t_val, call_vars>>

\* A blocked caller is woken when the cell is no longer being computed and
\* looks at the cell again.
CountWake(t) ==
    /\ pc[t] = "waiting"
    /\ cell.state # "Computing"
    /\ pc' = [pc EXCEPT ![t] = "count"]
    /\ UNCHANGED <<host_vars, repo, props, lastBuild, lastEval, builds,
                   cell_vars, t_repo, t_val, call_vars>>

\* The closure returns: its value is stored and returned.
ComputeOk(t) ==
    /\ pc[t] = "computing"
    /\ LET v == most_digits_closure(t_repo[t])
       IN /\ cell' = DoneCell(v)
          /\ t_val' = [t_val EXCEPT ![t] = v]
    /\ computed_from' = [set |-> TRUE, repo |-> t_repo[t]]
    /\ pc' = [pc EXCEPT ![t] = "wrap"]
    /\ count_returns' = count_returns + 1
    /\ UNCHANGED <<host_vars, repo, props, lastBuild, lastEval, builds, compute_calls, failures, computers, t_repo,
                   count_calls, first_call_repo>>

\* evaluate_programmatic fails: unwrap panics inside the closure, the panic
\* unwinds through get_or_init and count into the calling thread.
ComputeFail(t) ==
    /\ pc[t] = "computing"
    /\ failures' = failures + 1
    /\ cell' = on_init_panic(cell)
    /\ pc' = [pc EXCEPT ![t] = "panicked"]
    /\ t_repo' = [t_repo EXCEPT ![t] = {}]
    /\ UNCHANGED <<host_vars, repo, props, lastBuild, lastEval, builds, compute_calls, computed_from, computers,
                   t_val, call_vars>>

\* wrap_boolean(TemplateFunction::new(property, move |commit| ...)).
WrapBoolean(t) ==
    /\ pc[t] = "wrap"
    /\ LET p == Property("has_most_digits", Call(<<>>), "", t_val[t])
       IN /\ props' = props \cup {p}
          /\ lastBuild' = [method |-> "has_most_digits", call |-> Call(<<>>),
                           result |-> BuildOk(p)]
    /\ pc' = [pc EXCEPT ![t] = "idle"]
    /\ t_repo' = [t_repo EXCEPT ![t] = {}]
    /\ t_val' = [t_val EXCEPT ![t] = 0]
    /\ UNCHANGED <<host_vars, repo, lastEval, builds, cell_vars,
                   call_vars>>

(***************************************************************************)
(* The other two builders touch no shared state and run in one step.       *)
(***************************************************************************)
FinishBuild(method, call, r) ==
    /\ builds' = builds + 1
    /\ lastBuild' = [method |-> method, call |-> call, result |-> r]
    /\ props' = IF r.ok THEN props \cup {r.prop} ELSE props
    /\ UNCHANGED <<host_vars, repo, lastEval, cell_vars,
                   thread_vars, call_vars>>

BuildNumDigitsInId(call) ==
    /\ phase = "ready"
    /\ "num_digits_in_id" \in fn_table
    /\ builds < MaxBuilds
    /\ FinishBuild("num_digits_in_id", call, build_num_digits_in_id(call))

BuildNumCharInId(call) ==
    /\ phase = "ready"
    /\ "num_char_in_id" \in fn_table
    /\ builds < MaxBuilds
    /\ FinishBuild("num_char_in_id", call, build_num_char_in_id(call))

\* Rendering: a built property is run on a commit.
Eval(p, commit) ==
    /\ phase = "ready"
    /\ lastEval' = [prop |-> p, commit |-> commit,
                    result |-> eval_property(p, commit)]
    /\ UNCHANGED <<host_vars, repo, props, lastBuild, builds,
                   cell_vars, thread_vars, call_vars>>

Next ==
    \/ HostBuildFnTable
    \/ HostBuildCacheExtensions
    \/ RepoChange
    \/ \E t \in Threads, call \in CallSites : BuildHasMostDigits(t, call)
    \/ \E t \in Threads : CountGet(t)
    \/ \E t \in Threads : CountInit(t)
    \/ \E t \in Threads : CountWait(t)
    \/ \E t \in Threads : CountWake(t)
    \/ \E t \in Threads : ComputeOk(t)
    \/ \E t \in Threads : ComputeFail(t)
    \/ \E t \in Threads : WrapBoolean(t)
    \/ \E call \in CallSites : BuildNumDigitsInId(call)
    \/ \E call \in CallSites : BuildNumCharInId(call)
    \/ \E p \in props, commit \in IdPool : Eval(p, commit)

Spec == Init /\ [][Next]_vars

(***************************************************************************)
(* Reference definitions the claims are stated with.                       *)
(***************************************************************************)
DecimalDigits == {"0", "1", "2", "3", "4", "5", "6", "7", "8", "9"}

\* Number of decimal-digit characters in the hex form of id.
DigitCount(id) ==
    Cardinality({i \in 1..Len(hex(id)) : hex(id)[i] \in DecimalDigits})

\* Number of occurrences of character c in the hex form of id.
CharCount(id, c) ==
    Cardinality({i \in 1..Len(hex(id)) : hex(id)[i] = c})

\* Largest digit count over the ids of U, 0 for the empty universe.
MaxOver(U) ==
    IF U = {} THEN 0
    ELSE CHOOSE m \in {DigitCount(o) : o \in U} :
             \A o \in U : DigitCount(o) <= m

InCount(t) == pc[t] \in {"count", "computing", "waiting"}

\* A num_char_in_id call the builder accepts: one argument, a string
\* literal of exactly one character.
ValidCharCall(call) ==
    /\ Len(call.args) = 1
    /\ call.args[1].kind = "string"
    /\ Len(call.args[1].value) = 1

\* The span a rejected num_char_in_id call is reported at: the argument,
\* or the argument list when the number of arguments is wrong.
OffendingSpan(call) ==
    IF Len(call.args) = 1 THEN call.args[1].span ELSE call.args_span

U7 == {IdA1B2C3, Id000111, IdABCDEF}

(***************************************************************************)
(* C1, as stated: once two or more calls of count have been made and have  *)
(* ended, the closure has been invoked exactly once.                       *)
(***************************************************************************)
C1_ComputedExactlyOnce ==
    (count_calls >= 2 /\ \A t \in Threads : ~InCount(t)) => compute_calls = 1

(***************************************************************************)
(* C1, amended: at most one invocation of the closure ever completes, and  *)
(* the closure has been invoked once for the stored or running             *)
(* computation plus once for every invocation that panicked; so after two  *)
(* or more calls of count have returned it has been invoked exactly        *)
(* 1 + failures times, which is 1 when no enumeration failed.              *)
(***************************************************************************)
C1_ComputedOncePerSuccess ==
    /\ compute_calls = failures + (IF cell.state = "Empty" THEN 0 ELSE 1)
    /\ count_returns >= 1 => cell.state = "Done"
    /\ count_returns >= 2 => compute_calls = 1 + failures

C1_Witness ==
    /\ count_returns >= 2
    /\ compute_calls = 1
    /\ \A t \in Threads : ~InCount(t)

(***************************************************************************)
(* C2, as stated: only one thread ever runs the computation, and a thread  *)
(* that waited for it leaves the wait with the cell filled.                *)
(***************************************************************************)
C2_OneThreadComputes ==
    [][/\ Cardinality(computers') <= 1
       /\ \A t \in Threads :
              (pc[t] = "waiting" /\ pc'[t] # "waiting") => cell'.state = "Done"]_vars

\* Closure invocations that have run to completion.
CompletedComputations ==
    compute_calls - failures - Cardinality({t \in Threads : pc[t] = "computing"})

(***************************************************************************)
(* C2, amended: at most one thread runs the computation at any time; at    *)
(* most one computation ever completes, and exactly one has completed once *)
(* any call has returned (none completes when every attempt panics); a     *)
(* thread that finds the computation running waits until the cell is       *)
(* filled, or takes the computation over when the computing thread         *)
(* panicked; every call that returns, returns the one stored value; a call *)
(* made after completion returns it at once, without waiting and without   *)
(* invoking the closure.                                                   *)
(***************************************************************************)
C2_ComputeOnceUnderContention ==
    /\ [](/\ Cardinality({t \in Threads : pc[t] = "computing"}) <= 1
          /\ (cell.state = "Computing") <=> (\E t \in Threads : pc[t] = "computing")
          /\ CompletedComputations \in {0, 1}
          /\ (CompletedComputations = 1) <=> (cell.state = "Done")
          /\ count_returns >= 1 => CompletedComputations = 1
          /\ \A t \in Threads :
                 pc[t] = "wrap" => (cell.state = "Done" /\ t_val[t] = cell.value))
    /\ [][/\ cell.state = "Done" => cell' = cell
          /\ \A t \in Threads :
                 (pc[t] = "waiting" /\ pc'[t] # "waiting") =>
                     (pc'[t] = "count" /\ cell.state \in {"Done", "Empty"})
          /\ \A t \in Threads :
                 (cell.state = "Done" /\ pc[t] = "count" /\ pc'[t] # "count") =>
                     (/\ pc'[t] = "wrap"
                      /\ t_val'[t] = cell.value
                      /\ compute_calls' = compute_calls)]_vars

C2_Witness ==
    /\ cell.state = "Done"
    /\ Cardinality(computers) = 1
    /\ \E t \in Threads : pc[t] = "waiting"
    /\ \E t \in Threads : pc[t] = "wrap"

(***************************************************************************)
(* C3, as stated: has_most_digits(o) is true exactly when the digit count  *)
(* of o equals the maximum over the universe U the cell was computed from  *)
(* (0 for the empty universe), and for the empty universe it is false for  *)
(* every object.                                                           *)
(***************************************************************************)
C3_HasMostDigitsFalseOnEmpty ==
    lastEval.prop.method = "has_most_digits" =>
        /\ lastEval.result.value =
               (DigitCount(lastEval.commit) = MaxOver(computed_from.repo))
        /\ computed_from.repo = {} => lastEval.result.value = FALSE

(***************************************************************************)
(* C3, amended: has_most_digits(o) is true exactly when the digit count of *)
(* o equals the maximum over the universe U the cell was computed from;    *)
(* for the empty universe the maximum is 0, so the predicate is true       *)
(* exactly for the objects whose id has no decimal digit (it is false only *)
(* for objects with at least one digit, and for the objects of U, of which *)
(* there are none).                                                        *)
(***************************************************************************)
C3_HasMostDigitsIffMax ==
    lastEval.prop.method = "has_most_digits" =>
        /\ computed_from.set
        /\ lastEval.result.ok
        /\ lastEval.result.value =
               (DigitCount(lastEval.commit) = MaxOver(computed_from.repo))
        /\ computed_from.repo = {} =>
               /\ lastEval.prop.most_digits = 0
               /\ lastEval.result.value = (DigitCount(lastEval.commit) = 0)

C3_Witness ==
    /\ lastEval.prop.method = "has_most_digits"
    /\ computed_from.repo = {}
    /\ lastEval.commit = IdABCDEF
    /\ lastEval.result.value = TRUE

(***************************************************************************)
(* C4: num_digits_in_id(o) is the number of characters '0'..'9' in the hex *)
(* form of o's id, a function of the id alone, and evaluating it changes   *)
(* nothing but the evaluation's own result.                                *)
(***************************************************************************)
C4_NumDigitsCountsDecimalDigits ==
    /\ [](lastEval.prop.method = "num_digits_in_id" =>
              /\ lastEval.result.ok
              /\ lastEval.result.value = DigitCount(lastEval.commit))
    /\ [][lastEval' # lastEval =>
              UNCHANGED <<host_vars, cell_vars, thread_vars, call_vars, repo,
                          props, lastBuild, builds>>]_vars

C4_Witness ==
    /\ lastEval.prop.method = "num_digits_in_id"
    /\ lastEval.commit = IdA1B2C3
    /\ lastEval.result.value = 3

(***************************************************************************)
(* C5: the property built from num_char_in_id(c), c a string literal of    *)
(* one character, evaluates on o to the number of occurrences of c in the  *)
(* hex form of o's id, and never to an error.                              *)
(***************************************************************************)
C5_NumCharCountsOccurrences ==
    lastEval.prop.method = "num_char_in_id" =>
        /\ ValidCharCall(lastEval.prop.call)
        /\ lastEval.result.ok
        /\ lastEval.result.value =
               CharCount(lastEval.commit, lastEval.prop.call.args[1].value[1])

C5_Witness ==
    /\ lastEval.prop.method = "num_char_in_id"
    /\ lastEval.prop.call.args[1].value = <<"1">>
    /\ lastEval.commit = IdA1B2C3
    /\ lastEval.result.value = 1

(***************************************************************************)
(* C6: building num_char_in_id with anything but one string literal of     *)
(* exactly one character (an empty or longer literal, another kind of      *)
(* expression, a wrong number of arguments) fails with a parse error that  *)
(* carries the span of the offending argument (of the argument list when   *)
(* the count is wrong); no property is produced, and no property of such a *)
(* call is ever evaluated.                                                 *)
(***************************************************************************)
C6_BadCharArgumentFailsBuild ==
    /\ (lastBuild.method = "num_char_in_id" /\ ~ValidCharCall(lastBuild.call)) =>
           /\ ~lastBuild.result.ok
           /\ lastBuild.result.prop = NoProperty
           /\ lastBuild.result.msg # ""
           /\ lastBuild.result.span = OffendingSpan(lastBuild.call)
    /\ \A p \in props : p.method = "num_char_in_id" => ValidCharCall(p.call)
    /\ lastEval.prop.method = "num_char_in_id" => ValidCharCall(lastEval.prop.call)
    /\ lastEval.prop \in props \cup {NoProperty}

C6_Witness ==
    /\ lastBuild.method = "num_char_in_id"
    /\ lastBuild.call = Call(<<StrLit(<<"1", "1">>, 1)>>)
    /\ ~lastBuild.result.ok
    /\ lastBuild.result.msg = "Expected singular character argument"
    /\ lastEval # NoEval

(***************************************************************************)
(* C7, as stated: in the universe {a1b2c3, 000111, abcdef} the digit       *)
(* counts are 3, 6 and 0, the cached maximum is 6, has_most_digits is true *)
(* only for 000111, and num_char_in_id('1') on 000111 is 2.                *)
(***************************************************************************)
C7_ScenarioCommon ==
    /\ lastEval.prop.method = "num_digits_in_id" =>
           /\ lastEval.commit = IdA1B2C3 => lastEval.result.value = 3
           /\ lastEval.commit = Id000111 => lastEval.result.value = 6
           /\ lastEval.commit = IdABCDEF => lastEval.result.value = 0
    /\ (computed_from.set /\ computed_from.repo = U7) =>
           /\ cell = DoneCell(6)
           /\ lastEval.prop.method = "has_most_digits" =>
                  lastEval.result.value = (lastEval.commit = Id000111)

C7_ScenarioOnesAreTwo ==
    /\ C7_ScenarioCommon
    /\ (/\ lastEval.prop.method = "num_char_in_id"
        /\ lastEval.prop.ch = "1"
        /\ lastEval.commit = Id000111) => lastEval.result = Ok(2)

(***************************************************************************)
(* C7, amended: as stated, except that num_char_in_id('1') on 000111 is 3  *)
(* (the id has three characters '1').                                      *)
(***************************************************************************)
C7_ScenarioOnesAreThree ==
    /\ C7_ScenarioCommon
    /\ (/\ lastEval.prop.method = "num_char_in_id"
        /\ lastEval.prop.ch = "1"
        /\ lastEval.commit = Id000111) => lastEval.result = Ok(3)

C7_Witness ==
    /\ computed_from.set
    /\ computed_from.repo = U7
    /\ cell = DoneCell(6)
    /\ hex(Id000111) = <<"0", "0", "0", "1", "1", "1">>
    /\ hex(IdA1B2C3) = <<"a", "1", "b", "2", "c", "3">>
    /\ hex(IdABCDEF) = <<"a", "b", "c", "d", "e", "f">>
    /\ lastEval.prop.method = "num_char_in_id"
    /\ lastEval.prop.ch = "1"
    /\ lastEval.commit = Id000111

(***************************************************************************)
(* C8, as stated: the stored value is the maximum over the universe passed *)
(* by the first call of count (the first call to reach the cell).          *)
(***************************************************************************)
C8_ValueOfFirstCall ==
    cell.state = "Done" =>
        (first_call_repo.set /\ cell.value = MaxOver(first_call_repo.repo))

(***************************************************************************)
(* C8, amended: the stored value is the maximum over the universe passed   *)
(* by the first call of count whose computation completed (a call whose    *)
(* enumeration failed stores nothing, and a later call computes from the   *)
(* universe it passes); once stored the value never changes, and every     *)
(* call returns it, whatever universe the call passes.                     *)
(***************************************************************************)
C8_ValueOfCompletedComputation ==
    /\ [](cell.state = "Done" =>
              /\ computed_from.set
              /\ cell.value = MaxOver(computed_from.repo))
    /\ [](\A t \in Threads : pc[t] = "wrap" => t_val[t] = cell.value)
    /\ [][cell.state = "Done" =>
              (cell' = cell /\ computed_from' = computed_from)]_vars

C8_Witness ==
    /\ cell.state = "Done"
    /\ \E t \in Threads :
           /\ pc[t] = "wrap"
           /\ t \notin computers
           /\ t_repo[t] # computed_from.repo
           /\ MaxOver(t_repo[t]) # cell.value
           /\ t_val[t] = cell.value

(***************************************************************************)
(* C9: when the enumeration fails inside the computation, the panic        *)
(* reaches the thread that ran it and no other, the cell is left empty     *)
(* (nothing is stored for the failure), the next call that looks at the    *)
(* cell runs the closure again, and a computation that succeeds stores the *)
(* maximum over the universe its caller passed.                            *)
(***************************************************************************)
C9_FailureNotCached ==
    /\ [][\A t \in Threads :
              (pc[t] = "computing" /\ pc'[t] = "panicked") =>
                  /\ cell' = EmptyCell
                  /\ computed_from' = computed_from
                  /\ \A u \in Threads \ {t} : pc'[u] = pc[u]]_vars
    /\ [][\A t \in Threads :
              (failures > 0 /\ cell.state = "Empty"
                 /\ pc[t] = "count" /\ pc'[t] # "count") =>
                  /\ pc'[t] = "computing"
                  /\ compute_calls' = compute_calls + 1]_vars
    /\ [][\A t \in Threads :
              (pc[t] = "computing" /\ pc'[t] = "wrap") =>
                  cell' = DoneCell(MaxOver(t_repo[t]))]_vars
    /\ [](failures > 0 => (cell.state = "Done" <=> computed_from.set))

C9_Witness ==
    /\ failures >= 1
    /\ cell.state = "Done"
    /\ compute_calls = failures + 1
    /\ \E t \in Threads : pc[t] = "panicked"

(***************************************************************************)
(* C10: the MostDigitsInId singleton enters the ExtensionsMap exactly once *)
(* and before any builder or property runs; from then on the map is only   *)
(* read, and the lookup in the has_most_digits builder always finds it.    *)
(***************************************************************************)
C10_ExtensionsSeededBeforeUse ==
    /\ [](/\ ext_inserts <= 1
          /\ (builds > 0 \/ lastEval # NoEval \/ lastBuild # NoBuild) =>
                 (extensions = {"MostDigitsInId"} /\ ext_inserts = 1)
          /\ \A t \in Threads : pc[t] # "lookup_panic")
    /\ [][phase = "ready" =>
              (extensions' = extensions /\ ext_inserts' = ext_inserts
                 /\ phase' = "ready")]_vars

C10_Witness ==
    /\ ext_inserts = 1
    /\ \E t \in Threads : pc[t] = "count"

=============================================================================
